---- MODULE Spec2Model ----
(***************************************************************************)
(* Earthquake ELT pipeline (dags/earthquake_etl_dag.py): a daily DAG of    *)
(* three tasks, extract_data >> load_raw_data >> transform_data, over the  *)
(* tables raw_earthquakes (Raw Store), load_history (Load Ledger) and      *)
(* analytics_earthquakes (Analytics Store).                                *)
(*                                                                         *)
(* Time is counted in days.  Magnitudes are in tenths (3.0 is 30), depths  *)
(* in km, event times in epoch milliseconds.  A JSON field value is a      *)
(* record [kind, v]: kind "num" or "str" for a well-typed value, "null"    *)
(* for a missing key or a JSON null, "bad" for a value of the wrong type   *)
(* (a cast of it raises).                                                  *)
(***************************************************************************)
EXTENDS Integers, Sequences, FiniteSets, TLC

\* ---------------------------------------------------------------- bounds
MaxId == 2
MaxBatch == 2
MaxTime == 3
MaxRuns == 2
MaxFaults == 2

\* ----------------------------------------------------- program constants
retries == 3
WindowDays == 2

Ids == 1..MaxId

\* ------------------------------------------------------------ JSON values
Num(n) == [kind |-> "num", v |-> n]
Str(s) == [kind |-> "str", v |-> s]
Null == [kind |-> "null", v |-> 0]
Bad == [kind |-> "bad", v |-> 0]

\* Place descriptions, as sequences of characters.
chMexico == <<"M", "e", "x", "i", "c", "o">>
chCalifornia == <<"C", "a", "l", "i", "f", "o", "r", "n", "i", "a">>
chJapan == <<"J", "a", "p", "a", "n">>
chChile == <<"C", "h", "i", "l", "e">>
PlaceMexico == <<"1", "0", "k", "m", " ", "S", "W", " ", "o", "f", " ">> \o chMexico
                 \o <<" ", "C", "i", "t", "y", ",", " ">> \o chMexico
PlaceNowhere == <<"5", "k", "m", " ", "N", " ", "o", "f", " ", "N", "o", "w", "h", "e", "r", "e">>

\* ------------------------------------------- transform_sql: the SELECT list
\* s LIKE '%pat%'
Contains(s, pat) ==
    \E k \in 0..(Len(s) - Len(pat)) : SubSeq(s, k + 1, k + Len(pat)) = pat

\* The CASE with its first two WHEN branches in the other order.
CountryCaliforniaFirst(place) ==
    IF place.kind = "str" /\ Contains(place.v, chCalifornia) THEN "United States"
    ELSE IF place.kind = "str" /\ Contains(place.v, chMexico) THEN "Mexico"
    ELSE IF place.kind = "str" /\ Contains(place.v, chJapan) THEN "Japan"
    ELSE IF place.kind = "str" /\ Contains(place.v, chChile) THEN "Chile"
    ELSE "Other"

\* lines 163-169: CASE WHEN place LIKE ... END as country (a NULL place
\* matches no WHEN and takes the ELSE).
Country(place) ==
    IF place.kind = "str" /\ Contains(place.v, chMexico) THEN "Mexico"
    ELSE IF place.kind = "str" /\ Contains(place.v, chCalifornia) THEN "United States"
    ELSE IF place.kind = "str" /\ Contains(place.v, chJapan) THEN "Japan"
    ELSE IF place.kind = "str" /\ Contains(place.v, chChile) THEN "Chile"
    ELSE "Other"

\* Position of the last comma of s, 0 when there is none.
LastComma(s) ==
    LET P == {k \in 1..Len(s) : s[k] = ","}
    IN IF P = {} THEN 0 ELSE CHOOSE k \in P : \A j \in P : j <= k

\* line 172: SPLIT_PART(place, ',', -1): the last of the comma-separated
\* fields, as it stands (no trimming); NULL for a NULL place.
Region(place) ==
    IF place.kind = "str"
    THEN Str(SubSeq(place.v, LastComma(place.v) + 1, Len(place.v)))
    ELSE Null

\* The ladder with <= for <: a boundary falls into the lower category.
MagnitudeCategoryInclusive(mag) ==
    IF mag.kind = "num" /\ mag.v <= 30 THEN "Minor"
    ELSE IF mag.kind = "num" /\ mag.v <= 50 THEN "Light"
    ELSE IF mag.kind = "num" /\ mag.v <= 60 THEN "Moderate"
    ELSE IF mag.kind = "num" /\ mag.v <= 70 THEN "Strong"
    ELSE "Major"

\* lines 175-181 (a NULL magnitude makes every comparison NULL: ELSE).
MagnitudeCategory(mag) ==
    IF mag.kind = "num" /\ mag.v < 30 THEN "Minor"
    ELSE IF mag.kind = "num" /\ mag.v < 50 THEN "Light"
    ELSE IF mag.kind = "num" /\ mag.v < 60 THEN "Moderate"
    ELSE IF mag.kind = "num" /\ mag.v < 70 THEN "Strong"
    ELSE "Major"

\* The depth ladder with <= for <.
DepthCategoryInclusive(depth) ==
    IF depth.kind = "num" /\ depth.v <= 70 THEN "Shallow"
    ELSE IF depth.kind = "num" /\ depth.v <= 300 THEN "Intermediate"
    ELSE "Deep"

\* lines 184-188
DepthCategory(depth) ==
    IF depth.kind = "num" /\ depth.v < 70 THEN "Shallow"
    ELSE IF depth.kind = "num" /\ depth.v < 300 THEN "Intermediate"
    ELSE "Deep"

\* The risk CASE with the depth test of its first branch left out.
RiskLevelAnyDepth(mag, depth) ==
    IF mag.kind = "num" /\ mag.v >= 60 THEN "High"
    ELSE IF mag.kind = "num" /\ mag.v >= 50 THEN "Medium"
    ELSE "Low"

\* lines 191-196
RiskLevel(mag, depth) ==
    IF mag.kind = "num" /\ mag.v >= 60 /\ depth.kind = "num" /\ depth.v < 70 THEN "High"
    ELSE IF mag.kind = "num" /\ mag.v >= 50 THEN "Medium"
    ELSE "Low"

\* line 154: to_timestamp(time::bigint / 1000), in seconds since the epoch.
OccurredAt(time) == IF time.kind = "num" THEN Num(time.v \div 1000) ELSE Null

DayNames == <<"Thursday ", "Friday   ", "Saturday ", "Sunday   ",
              "Monday   ", "Tuesday  ", "Wednesday">>

\* line 199: TO_CHAR(ts, 'Day') (blank-padded to 9; 1970-01-01 is a Thursday).
DayOfWeek(time) ==
    IF time.kind = "num" THEN Str(DayNames[(((time.v \div 1000) \div 86400) % 7) + 1])
    ELSE Null

\* line 200: EXTRACT(HOUR FROM ts)
HourOfDay(time) ==
    IF time.kind = "num" THEN Num(((time.v \div 1000) \div 3600) % 24) ELSE Null

\* A ::bigint or ::decimal cast of a mistyped value raises.
CastFails(p) ==
    \/ p.time.kind = "bad"
    \/ p.mag.kind = "bad"
    \/ \E k \in 1..3 : p.coordinates[k].kind = "bad"

\* The SELECT list with a key of its own making in the place of the raw id.
DeriveOwnKey(p) ==
    [earthquake_id |-> p.id + MaxId,
     occurred_at |-> OccurredAt(p.time),
     latitude |-> p.coordinates[2],
     longitude |-> p.coordinates[1],
     depth_km |-> p.coordinates[3],
     magnitude |-> p.mag,
     magnitude_type |-> p.magType,
     place |-> p.place,
     country |-> Country(p.place),
     region |-> Region(p.place),
     magnitude_category |-> MagnitudeCategory(p.mag),
     depth_category |-> DepthCategory(p.coordinates[3]),
     risk_level |-> RiskLevel(p.mag, p.coordinates[3]),
     day_of_week |-> DayOfWeek(p.time),
     hour_of_day |-> HourOfDay(p.time)]

\* lines 152-200: the row the SELECT derives from one raw payload.
Derive(p) ==
    [earthquake_id |-> p.id,
     occurred_at |-> OccurredAt(p.time),
     latitude |-> p.coordinates[2],
     longitude |-> p.coordinates[1],
     depth_km |-> p.coordinates[3],
     magnitude |-> p.mag,
     magnitude_type |-> p.magType,
     place |-> p.place,
     country |-> Country(p.place),
     region |-> Region(p.place),
     magnitude_category |-> MagnitudeCategory(p.mag),
     depth_category |-> DepthCategory(p.coordinates[3]),
     risk_level |-> RiskLevel(p.mag, p.coordinates[3]),
     day_of_week |-> DayOfWeek(p.time),
     hour_of_day |-> HourOfDay(p.time)]

\* ------------------------------------------------------ the upstream feed
\* What the feed can hand out for event i: its first report, a revised
\* report under the same id, and a report whose magnitude is mistyped.
\* The first event is the one the feed revises, the last one the one it
\* reports with a mistyped magnitude.
VariantsOf(i) ==
    {"first"} \cup (IF i = 1 THEN {"revised"} ELSE {})
              \cup (IF i = MaxId THEN {"mistyped"} ELSE {})

Feature(i, v) ==
    [id |-> i,
     time |-> Num(IF v = "revised" THEN 0 ELSE 90061000),
     mag |-> IF v = "mistyped" THEN Bad ELSE IF v = "revised" THEN Num(45) ELSE Num(65),
     magType |-> Str(<<"m", "w">>),
     place |-> Str(IF v = "revised" THEN PlaceNowhere ELSE PlaceMexico),
     coordinates |-> <<Num(0 - 99), Num(19), Num(IF v = "revised" THEN 150 ELSE 50)>>]

Feed == UNION {{Feature(i, v) : v \in VariantsOf(i)} : i \in Ids}

RECURSIVE SeqsUpTo(_, _)
SeqsUpTo(S, n) ==
    IF n = 0 THEN {<<>>}
    ELSE LET R == SeqsUpTo(S, n - 1)
         IN R \cup {Append(q, x) : q \in {r \in R : Len(r) = n - 1}, x \in S}

\* response.json() (line 53): a document with a features array, or one
\* without the key.
NoFeatures == [hasFeatures |-> FALSE, features |-> <<>>]

\* A feature without the 'id' key (id 0 stands for the absent key).
NoId == 0
NoIdDocument ==
    [hasFeatures |-> TRUE, features |-> <<[Feature(1, "first") EXCEPT !.id = NoId]>>]

\* The ids of a document's features.
BatchIds(doc) == {doc.features[k].id : k \in 1..Len(doc.features)}

Documents ==
    {NoFeatures, NoIdDocument}
        \cup {[hasFeatures |-> TRUE, features |-> fs] : fs \in SeqsUpTo(Feed, MaxBatch)}

\* ------------------------------------------------------------------ state
VARIABLES
    now,            \* the clock, in days
    raw,            \* raw_earthquakes: earthquake_id -> row
    ledger,         \* load_history: the rows, in insertion order
    analytics,      \* analytics_earthquakes: earthquake_id -> row
    xcom,           \* XCom 'earthquake_data' of the current DAG run
    ti,             \* task instance state of each task of the current run
    tries,          \* try_number of each task of the current run
    runs,           \* DAG runs started
    faults,         \* transport and storage faults so far
    loadCalls,      \* invocations of load_raw_data so far
    lastLoad,       \* what the latest invocation of load_raw_data did
    lastTransform,  \* what the latest execution of transform_sql did
    history,        \* the batches extracted so far, run by run (kept for the accounting)
    dagrun          \* two DAG runs active at once: where each stands in its tasks

vars == <<now, raw, ledger, analytics, xcom, ti, tries, runs, faults,
          loadCalls, lastLoad, lastTransform, history, dagrun>>

\* What the tasks themselves neither read nor write.
aux == <<history, dagrun>>

Tasks == {"extract_data", "load_raw_data", "transform_data"}

\* The tasks with the dependency line left out.
NoUpstream(t) == {}

\* line 229: extract_task >> load_task >> transform_task
Upstream(t) ==
    IF t = "load_raw_data" THEN {"extract_data"}
    ELSE IF t = "transform_data" THEN {"load_raw_data"}
    ELSE {}

EmptyTable == [i \in {} |-> 0]
NoError == "none"
NoLoad ==
    [outcome |-> "none", data |-> NoFeatures, original |-> NoError, raised |-> NoError,
     handlerFailed |-> FALSE, committed |-> FALSE, added |-> 0, fresh |-> 0,
     wrote |-> 0, repeat |-> FALSE]
NoTransform ==
    [outcome |-> "none", window |-> {}, at |-> 0, updated |-> {}, repeat |-> FALSE]
NoHistory == [batches |-> <<>>, incomplete |-> FALSE]

\* The DAG sets no max_active_runs (lines 22-29), so a run can start while
\* another is active.  Of such a run: the task it is in (pc), its XCom
\* (features), the loop index of its Loader (next), the rows its open
\* transaction inserted (pending), its loaded_count, its Loader's try
\* number, and the rows its committed transactions inserted.
DagRuns == {"A", "B"}
NoDagRun ==
    [pc |-> "none", features |-> <<>>, next |-> 1, pending |-> EmptyTable,
     loaded_count |-> 0, tries |-> 0, inserted |-> EmptyTable]

Init ==
    /\ now = 0
    /\ raw = EmptyTable
    /\ ledger = <<>>
    /\ analytics = EmptyTable
    /\ xcom = NoFeatures
    /\ ti = [t \in Tasks |-> "none"]
    /\ tries = [t \in Tasks |-> 0]
    /\ runs = 1
    /\ faults = 0
    /\ loadCalls = 0
    /\ lastLoad = NoLoad
    /\ lastTransform = NoTransform
    /\ history = NoHistory
    /\ dagrun = [r \in DagRuns |-> NoDagRun]

\* ----------------------------------------------------- Airflow's scheduler
\* default_args without its retries entry: a task that raised is failed.
AfterFailureNoRetry(t) == "failed"

\* A task that raised is retried while its try_number is within retries
\* (default_args, line 17); after that it is failed.
AfterFailure(t) == IF tries[t] <= retries THEN "up_for_retry" ELSE "failed"

\* The scheduler starts a task whose upstream tasks all succeeded
\* (trigger rule all_success over line 229), for the first time or again
\* after a failed try.
Runnable(t) ==
    /\ ti[t] \in {"none", "up_for_retry"}
    /\ \A u \in Upstream(t) : ti[u] = "success"

StartTask(t) ==
    /\ Runnable(t)
    /\ ti' = [ti EXCEPT ![t] = "running"]
    /\ tries' = [tries EXCEPT ![t] = @ + 1]
    /\ UNCHANGED <<now, raw, ledger, analytics, xcom, runs, faults,
                   loadCalls, lastLoad, lastTransform>>

\* A task below a failed task never runs: it becomes upstream_failed.
SkipTask(t) ==
    /\ ti[t] = "none"
    /\ \E u \in Upstream(t) : ti[u] \in {"failed", "upstream_failed"}
    /\ ti' = [ti EXCEPT ![t] = "upstream_failed"]
    /\ UNCHANGED <<now, raw, ledger, analytics, xcom, tries, runs, faults,
                   loadCalls, lastLoad, lastTransform>>

RunFinished == \A t \in Tasks : ti[t] \in {"success", "failed", "upstream_failed"}

RunFailed == \E t \in Tasks : ti[t] \in {"failed", "upstream_failed"}

\* schedule_interval '@daily' with catchup off (lines 26-27), or a manual
\* trigger: the next DAG run starts gap days after the previous one, with
\* fresh task instances and its own XCom.  The tasks of one run, retry
\* delays of minutes included (line 18), run within the same day.
NewRun(gap) ==
    /\ RunFinished
    /\ runs < MaxRuns
    /\ now + gap <= MaxTime
    /\ now' = now + gap
    /\ runs' = runs + 1
    /\ ti' = [t \in Tasks |-> "none"]
    /\ tries' = [t \in Tasks |-> 0]
    /\ xcom' = NoFeatures
    /\ UNCHANGED <<raw, ledger, analytics, faults,
                   loadCalls, lastLoad, lastTransform>>

\* ------------------------------------------------ extract_earthquake_data
\* lines 31-66: one request; a transport error or a non-success response
\* raises, otherwise the document is pushed to XCom.
extract_earthquake_data(doc, fault) ==
    /\ ti["extract_data"] = "running"
    /\ fault => faults < MaxFaults
    /\ fault => doc = NoFeatures
    /\ faults' = IF fault THEN faults + 1 ELSE faults
    /\ xcom' = IF fault THEN xcom ELSE doc
    /\ ti' = [ti EXCEPT !["extract_data"] =
                 IF fault THEN AfterFailure("extract_data") ELSE "success"]
    /\ UNCHANGED <<now, raw, ledger, analytics, tries, runs,
                   loadCalls, lastLoad, lastTransform>>

\* ---------------------------------------------------------- load_raw_data
\* An upsert in the place of the conflict-safe insert: a conflicting row is
\* overwritten with the new payload.
InsertOnConflictDoUpdate(store, feature, t) ==
    [store |-> (feature.id :>
                   [payload |-> feature, api_source |-> "USGS API", extracted_at |-> t])
               @@ store,
     rowcount |-> 1]

\* lines 94-98: INSERT ... ON CONFLICT (earthquake_id) DO NOTHING, with
\* extracted_at left to the column default (the time of the insert);
\* rowcount is the number of rows the statement inserted.
InsertOnConflictDoNothing(store, feature, t) ==
    IF feature.id \in DOMAIN store
    THEN [store |-> store, rowcount |-> 0]
    ELSE [store |-> store @@ (feature.id :>
                       [payload |-> feature, api_source |-> "USGS API", extracted_at |-> t]),
          rowcount |-> 1]

\* A count of the features processed, in the place of the rows inserted.
CountEveryFeature(loaded_count, rowcount) == loaded_count + 1

\* An assignment in the place of the accumulation.
LastRowcount(loaded_count, rowcount) == rowcount

\* line 100: loaded_count += cursor.rowcount
AddRowcount(loaded_count, rowcount) == loaded_count + rowcount

\* lines 87-100: the loop over data['features'], inside one transaction.
RECURSIVE InsertLoop(_, _, _)
InsertLoop(store, features, t) ==
    IF features = <<>>
    THEN [store |-> store, loaded_count |-> 0]
    ELSE LET before == InsertLoop(store, SubSeq(features, 1, Len(features) - 1), t)
             ins == InsertOnConflictDoNothing(before.store, features[Len(features)], t)
         IN [store |-> ins.store,
             loaded_count |-> AddRowcount(before.loaded_count, ins.rowcount)]

\* Where load_raw_data can raise: "storage" is get_conn/cursor (lines
\* 83-85), an execute of the loop (line 94) or the commit (line 102);
\* "history" is the SUCCESS insert into load_history (line 110).
LoadFaults == {"none", "storage", "history"}

\* line 90: feature['id'] raises KeyError on a feature without the key.
KeyError(features) == \E k \in 1..Len(features) : features[k].id = NoId

\* line 102: the transaction's inserts persist only once conn.commit()
\* returned; a connection dropped before that rolls them back.
Committed(error) == error \in {NoError, "history"}

SuccessRow(loaded_count) ==
    [records_loaded |-> loaded_count, status |-> "SUCCESS",
     error_message |-> NoError]

\* The handler writing the row of the success path.
FailedRowAsSuccess(e) ==
    [records_loaded |-> 0, status |-> "SUCCESS", error_message |-> e]

\* lines 122-125 (load_date, NOW() in both rows, is left out)
FailedRow(e) ==
    [records_loaded |-> 0, status |-> "FAILED", error_message |-> e]

\* The handler without its inner try: its own failure is what propagates.
HandlerErrorSurfaces(original, handlerError) ==
    IF handlerError # NoError THEN handlerError ELSE original

\* lines 120-128: the handler's own failure is swallowed (except: pass) and
\* the bare raise re-raises the exception being handled.
SurfacedError(original, handlerError) == original

load_raw_data(fault, handlerFails) ==
    /\ ti["load_raw_data"] = "running"
    /\ (IF fault = "none" THEN 0 ELSE 1) + (IF handlerFails THEN 1 ELSE 0)
           <= MaxFaults - faults
    /\ handlerFails => fault # "none" \/ KeyError(xcom.features)
    /\ ~xcom.hasFeatures => fault = "none"
    /\ fault = "history" => ~KeyError(xcom.features)
    /\ LET done == InsertLoop(raw, xcom.features, now)
           skip == ~xcom.hasFeatures
           error == IF fault # "none" THEN fault
                    ELSE IF KeyError(xcom.features) THEN "KeyError"
                    ELSE NoError
           ok == error = NoError
           rawNext == IF ~skip /\ Committed(error) THEN done.store ELSE raw
           ledgerNext ==
               IF skip THEN ledger
               ELSE IF ok THEN Append(ledger, SuccessRow(done.loaded_count))
               ELSE IF handlerFails THEN ledger
               ELSE Append(ledger, FailedRow(error))
       IN /\ raw' = rawNext
          /\ ledger' = ledgerNext
          /\ ti' = [ti EXCEPT !["load_raw_data"] =
                       IF ok THEN "success" ELSE AfterFailure("load_raw_data")]
          /\ lastLoad' =
               [outcome |-> IF ok THEN "returned" ELSE "raised",
                data |-> xcom,
                original |-> error,
                raised |-> IF ok THEN NoError
                           ELSE SurfacedError(error, IF handlerFails THEN "history_failed"
                                                     ELSE NoError),
                handlerFailed |-> handlerFails,
                committed |-> ~skip /\ Committed(error),
                added |-> Cardinality(DOMAIN rawNext) - Cardinality(DOMAIN raw),
                fresh |-> Cardinality({xcom.features[k].id : k \in 1..Len(xcom.features)}
                                          \ DOMAIN raw),
                wrote |-> Len(ledgerNext) - Len(ledger),
                repeat |-> lastLoad.committed /\ lastLoad.data = xcom]
    /\ faults' = faults + (IF fault = "none" THEN 0 ELSE 1) + (IF handlerFails THEN 1 ELSE 0)
    /\ loadCalls' = loadCalls + 1
    /\ UNCHANGED <<now, analytics, xcom, tries, runs, lastTransform>>

\* ---------------------------------------------------------- transform_sql
\* The SELECT without its WHERE clause.
WholeTable(row, t) == TRUE

\* The comparison turned round: the rows older than the window.
OlderThanWindow(row, t) == row.extracted_at < t - WindowDays

\* line 203: WHERE extracted_at >= NOW() - INTERVAL '2 days'
InWindow(row, t) == row.extracted_at >= t - WindowDays

\* lines 202-203: the raw rows the SELECT reads.
WindowRows(store, t) == {store[i] : i \in {j \in DOMAIN store : InWindow(store[j], t)}}

\* The conflict clause naming the other timestamp column.
OnConflictUpdateOccurredAt(existing, excluded, t) == [existing EXCEPT !.occurred_at = Num(t)]

\* The Loader's conflict clause, DO NOTHING, in the transform.
OnConflictDoNothing(existing, excluded, t) == existing

\* lines 204-205: ON CONFLICT (earthquake_id) DO UPDATE SET transformed_at = NOW()
OnConflictDoUpdate(existing, excluded, t) == [existing EXCEPT !.transformed_at = t]

\* lines 135-151: a new row takes the derived columns; transformed_at is
\* left to the column default (the time of the insert).
InsertedRow(derived, t) == derived @@ [transformed_at |-> t]

\* lines 135-205: the statement as one set-based write.
Upsert(table, selected, t) ==
    [i \in DOMAIN table \cup {d.earthquake_id : d \in selected} |->
        IF \E d \in selected : d.earthquake_id = i
        THEN LET d == CHOOSE x \in selected : x.earthquake_id = i
             IN IF i \in DOMAIN table
                THEN OnConflictDoUpdate(table[i], d, t)
                ELSE InsertedRow(d, t)
        ELSE table[i]]

\* The statement raises, and writes nothing, when a cast fails on a row of
\* the window or when two selected rows carry the same earthquake_id.
StatementFails(rows) ==
    \/ \E r \in rows : CastFails(r.payload)
    \/ \E r1 \in rows, r2 \in rows :
          r1.payload.id = r2.payload.id /\ Derive(r1.payload) # Derive(r2.payload)

\* The task with the gap closed: a failed statement is recorded in
\* load_history as well.
transform_sql_ledgered(fault) ==
    /\ ti["transform_data"] = "running"
    /\ fault => faults < MaxFaults
    /\ LET rows == WindowRows(raw, now)
           fails == fault \/ StatementFails(rows)
       IN /\ analytics' = IF fails THEN analytics
                          ELSE Upsert(analytics, {Derive(r.payload) : r \in rows}, now)
          /\ ledger' = IF fails THEN Append(ledger, FailedRow("transform")) ELSE ledger
          /\ ti' = [ti EXCEPT !["transform_data"] =
                       IF fails THEN AfterFailure("transform_data") ELSE "success"]
          /\ lastTransform' =
               [outcome |-> IF fails THEN "raised" ELSE "returned",
                window |-> rows,
                at |-> now,
                updated |-> IF fails THEN {}
                            ELSE {r.payload.id : r \in rows} \cap DOMAIN analytics,
                repeat |-> lastTransform.outcome = "returned" /\ lastTransform.window = rows]
    /\ faults' = IF fault THEN faults + 1 ELSE faults
    /\ UNCHANGED <<now, raw, xcom, tries, runs, loadCalls, lastLoad>>

\* lines 131-206 and 221-226: the PostgresOperator runs the one statement;
\* it either takes effect as a whole or raises and writes nothing.
transform_sql(fault) ==
    /\ ti["transform_data"] = "running"
    /\ fault => faults < MaxFaults
    /\ LET rows == WindowRows(raw, now)
           fails == fault \/ StatementFails(rows)
       IN /\ analytics' = IF fails THEN analytics
                          ELSE Upsert(analytics, {Derive(r.payload) : r \in rows}, now)
          /\ ti' = [ti EXCEPT !["transform_data"] =
                       IF fails THEN AfterFailure("transform_data") ELSE "success"]
          /\ lastTransform' =
               [outcome |-> IF fails THEN "raised" ELSE "returned",
                window |-> rows,
                at |-> now,
                updated |-> IF fails THEN {}
                            ELSE {r.payload.id : r \in rows} \cap DOMAIN analytics,
                repeat |-> lastTransform.outcome = "returned" /\ lastTransform.window = rows]
    /\ faults' = IF fault THEN faults + 1 ELSE faults
    /\ UNCHANGED <<now, raw, ledger, xcom, tries, runs, loadCalls, lastLoad>>

\* ------------------------------------------------------ the specification
Next ==
    \/ (\E t \in Tasks : StartTask(t)) /\ UNCHANGED aux
    \/ (\E t \in Tasks : SkipTask(t)) /\ UNCHANGED aux
    \/ (\E gap \in 0..MaxTime : NewRun(gap)) /\ UNCHANGED aux
    \/ (\E doc \in Documents, fault \in BOOLEAN : extract_earthquake_data(doc, fault))
          /\ UNCHANGED aux
    \/ (\E fault \in LoadFaults, handlerFails \in BOOLEAN : load_raw_data(fault, handlerFails))
          /\ UNCHANGED aux
    \/ (\E fault \in BOOLEAN : transform_sql(fault)) /\ UNCHANGED aux

Spec == Init /\ [][Next]_vars

\* ------------------------------------------- runs over a one-event feed
\* The same tasks, fed one event per run and without injected faults, with
\* the event's magnitude and depth, or its place description, drawn from
\* a range: what the SELECT list derives from every such value.
MaxMagnitude == 80
Margin == 2
MaxTokens == 3

FeatureWith(mag, depth, place) ==
    [Feature(1, "first") EXCEPT !.mag = mag,
                                !.coordinates = <<@[1], @[2], depth>>,
                                !.place = place]

Document(fs) == [hasFeatures |-> TRUE, features |-> fs]

\* Depths in km: the surface, and those within Margin of the two depths
\* the CASE expressions compare with (lines 185-186 and 192).
Depths == {0} \cup ((70 - Margin)..(70 + Margin)) \cup ((300 - Margin)..(300 + Margin))

\* One event of every magnitude (in tenths) at every such depth.
MeasuredDocuments ==
    {Document(<<FeatureWith(Num(m), Num(d), Str(PlaceMexico))>>) :
        m \in 0..MaxMagnitude, d \in Depths}

NextMeasured ==
    \/ (\E t \in Tasks : StartTask(t)) /\ UNCHANGED aux
    \/ (\E doc \in MeasuredDocuments : extract_earthquake_data(doc, FALSE)) /\ UNCHANGED aux
    \/ load_raw_data("none", FALSE) /\ UNCHANGED aux
    \/ transform_sql(FALSE) /\ UNCHANGED aux

SpecMeasured == Init /\ [][NextMeasured]_vars

\* Place descriptions: up to MaxTokens pieces, among them the four names
\* the CASE looks for, a name in lower case, and the separators.
chBaja == <<"B", "a", "j", "a">>
chmexico == <<"m", "e", "x", "i", "c", "o">>
Tokens == {chMexico, chCalifornia, chJapan, chChile, chBaja, chmexico, <<",">>, <<" ">>}

RECURSIVE Flatten(_)
Flatten(ts) == IF ts = <<>> THEN <<>> ELSE Head(ts) \o Flatten(Tail(ts))

Places == {PlaceMexico, PlaceNowhere} \cup {Flatten(ts) : ts \in SeqsUpTo(Tokens, MaxTokens)}

PlacedDocuments ==
    {Document(<<FeatureWith(Num(65), Num(50), Str(place))>>) : place \in Places}

NextPlaced ==
    \/ (\E t \in Tasks : StartTask(t)) /\ UNCHANGED aux
    \/ (\E doc \in PlacedDocuments : extract_earthquake_data(doc, FALSE)) /\ UNCHANGED aux
    \/ load_raw_data("none", FALSE) /\ UNCHANGED aux
    \/ transform_sql(FALSE) /\ UNCHANGED aux

SpecPlaced == Init /\ [][NextPlaced]_vars

\* ----------------------------------------- runs over a feed with bad records
\* The fields the SELECT list reads from a payload besides the id:
\* properties.time, properties.mag, properties.place and the three
\* entries of geometry.coordinates.
ExpectedFields == {"time", "mag", "place", "longitude", "latitude", "depth"}

\* The last event with one of its fields missing (Null) or of the wrong
\* type (Bad).
FeatureWithField(f, v) ==
    LET g == Feature(MaxId, "first")
    IN CASE f = "time" -> [g EXCEPT !.time = v]
         [] f = "mag" -> [g EXCEPT !.mag = v]
         [] f = "place" -> [g EXCEPT !.place = v]
         [] f = "longitude" -> [g EXCEPT !.coordinates[1] = v]
         [] f = "latitude" -> [g EXCEPT !.coordinates[2] = v]
         [] f = "depth" -> [g EXCEPT !.coordinates[3] = v]

\* properties.place is read with ->> and never cast, so a place of the
\* wrong type is read as its text; it is left out here.
MalformedFeatures ==
    {FeatureWithField(f, Null) : f \in ExpectedFields}
        \cup {FeatureWithField(f, Bad) : f \in ExpectedFields \ {"place"}}

\* Batches of the first event, well-formed, and of bad reports of the last.
MalformedDocuments ==
    {Document(fs) : fs \in SeqsUpTo({Feature(1, "first")} \cup MalformedFeatures, MaxBatch)}

NextMalformed ==
    \/ (\E t \in Tasks : StartTask(t)) /\ UNCHANGED aux
    \/ (\E doc \in MalformedDocuments : extract_earthquake_data(doc, FALSE)) /\ UNCHANGED aux
    \/ load_raw_data("none", FALSE) /\ UNCHANGED aux
    \/ transform_sql(FALSE) /\ UNCHANGED aux

SpecMalformed == Init /\ [][NextMalformed]_vars

\* ------------------------------------- runs over a well-formed feed, logged
\* Runs whose batches hold well-formed reports only, with the Loader's
\* storage faults; every run completes.  history keeps, run by run, the
\* ids of the batch Extract handed over, and whether a run was left FAILED.
WellFormedDocuments ==
    {Document(fs) :
        fs \in SeqsUpTo({f \in Feed : ~CastFails(f)}, MaxBatch)}

NextLogged ==
    \/ (\E t \in Tasks : StartTask(t)) /\ UNCHANGED aux
    \/ \E gap \in 0..MaxTime :
          /\ NewRun(gap)
          /\ history' = [history EXCEPT !.incomplete = @ \/ RunFailed]
          /\ UNCHANGED dagrun
    \/ \E doc \in WellFormedDocuments :
          /\ extract_earthquake_data(doc, FALSE)
          /\ history' = [history EXCEPT !.batches = Append(@, BatchIds(doc))]
          /\ UNCHANGED dagrun
    \/ (\E fault \in LoadFaults : load_raw_data(fault, FALSE)) /\ UNCHANGED aux
    \/ transform_sql(FALSE) /\ UNCHANGED aux

SpecLogged == Init /\ [][NextLogged]_vars

\* ------------------------------------------------ two runs active at once
\* The tasks of two overlapping runs, step by step: each execute of the
\* Loader's loop, its commit and its load_history insert are steps of their
\* own, and the steps of the two runs interleave freely.  The database is
\* PostgreSQL at its default isolation, READ COMMITTED.
single == <<now, xcom, ti, tries, runs, loadCalls, lastLoad, lastTransform, history>>

\* lines 94-98 against an open transaction of the other run: a row with
\* the same earthquake_id that the other run inserted and has not yet
\* committed makes the INSERT wait for that transaction to end.
InFlight(r, id) ==
    \E q \in DagRuns \ {r} :
        dagrun[q].pc = "load_raw_data" /\ id \in DOMAIN dagrun[q].pending

\* lines 31-66 of run r: the document is pushed to the run's XCom.
Extract(r, doc) ==
    /\ dagrun[r].pc = "none"
    /\ dagrun' = [dagrun EXCEPT ![r] =
                     [@ EXCEPT !.pc = "load_raw_data", !.features = doc.features,
                               !.tries = 1]]
    /\ UNCHANGED <<raw, ledger, analytics, faults>>
    /\ UNCHANGED single

\* The Loader of run r waits at its next INSERT.
Waiting(r) ==
    /\ dagrun[r].pc = "load_raw_data"
    /\ dagrun[r].next <= Len(dagrun[r].features)
    /\ InFlight(r, dagrun[r].features[dagrun[r].next].id)

\* lines 89-100, one iteration: the INSERT sees the committed rows and the
\* rows of its own transaction.
Execute(r) ==
    /\ dagrun[r].pc = "load_raw_data"
    /\ dagrun[r].next <= Len(dagrun[r].features)
    /\ ~Waiting(r)
    /\ LET d == dagrun[r]
           ins == InsertOnConflictDoNothing(d.pending @@ raw, d.features[d.next], now)
       IN dagrun' = [dagrun EXCEPT ![r] =
              [@ EXCEPT !.next = @ + 1,
                        !.pending = [i \in DOMAIN ins.store \ DOMAIN raw |-> ins.store[i]],
                        !.loaded_count = AddRowcount(@, ins.rowcount)]]
    /\ UNCHANGED <<raw, ledger, analytics, faults>>
    /\ UNCHANGED single

\* line 102: conn.commit() makes the transaction's rows visible.
Commit(r) ==
    /\ dagrun[r].pc = "load_raw_data"
    /\ dagrun[r].next > Len(dagrun[r].features)
    /\ raw' = raw @@ dagrun[r].pending
    /\ dagrun' = [dagrun EXCEPT ![r] =
                     [@ EXCEPT !.pc = "load_history", !.pending = EmptyTable,
                               !.inserted = @ @@ dagrun[r].pending]]
    /\ UNCHANGED <<ledger, analytics, faults>>
    /\ UNCHANGED single

\* lines 109-113: the SUCCESS row, in a transaction of its own.
RecordSuccess(r) ==
    /\ dagrun[r].pc = "load_history"
    /\ ledger' = Append(ledger, SuccessRow(dagrun[r].loaded_count))
    /\ dagrun' = [dagrun EXCEPT ![r] = [@ EXCEPT !.pc = "transform_data"]]
    /\ UNCHANGED <<raw, analytics, faults>>
    /\ UNCHANGED single

\* line 110 raises: the rows are committed already (line 102); the handler
\* records FAILED (lines 117-128) and the task is tried again (line 17).
RecordFails(r) ==
    /\ dagrun[r].pc = "load_history"
    /\ faults < MaxFaults
    /\ dagrun[r].tries <= retries
    /\ faults' = faults + 1
    /\ ledger' = Append(ledger, FailedRow("history"))
    /\ dagrun' = [dagrun EXCEPT ![r] =
                     [@ EXCEPT !.pc = "load_raw_data", !.next = 1, !.loaded_count = 0,
                               !.tries = @ + 1]]
    /\ UNCHANGED <<raw, analytics>>
    /\ UNCHANGED single

\* Both Loaders wait for each other's row: PostgreSQL ends one of the two
\* INSERTs with a deadlock error.  In run r the execute raises (line 94),
\* the closed connection drops the transaction, the handler records FAILED
\* (lines 117-128) and the task is tried again (line 17).
Deadlock(r) ==
    /\ \A q \in DagRuns : Waiting(q)
    /\ dagrun[r].tries <= retries
    /\ ledger' = Append(ledger, FailedRow("deadlock"))
    /\ dagrun' = [dagrun EXCEPT ![r] =
                     [@ EXCEPT !.next = 1, !.pending = EmptyTable, !.loaded_count = 0,
                               !.tries = @ + 1]]
    /\ UNCHANGED <<raw, analytics, faults>>
    /\ UNCHANGED single

\* lines 131-206 of run r: the statement reads the committed rows of the
\* window and writes analytics_earthquakes at once.
Transform(r) ==
    /\ dagrun[r].pc = "transform_data"
    /\ LET rows == WindowRows(raw, now)
       IN /\ ~StatementFails(rows)
          /\ analytics' = Upsert(analytics, {Derive(x.payload) : x \in rows}, now)
    /\ dagrun' = [dagrun EXCEPT ![r] = [@ EXCEPT !.pc = "success"]]
    /\ UNCHANGED <<raw, ledger, faults>>
    /\ UNCHANGED single

NextConcurrent ==
    \/ \E r \in DagRuns, doc \in WellFormedDocuments : Extract(r, doc)
    \/ \E r \in DagRuns : Execute(r)
    \/ \E r \in DagRuns : Commit(r)
    \/ \E r \in DagRuns : RecordSuccess(r)
    \/ \E r \in DagRuns : RecordFails(r)
    \/ \E r \in DagRuns : Deadlock(r)
    \/ \E r \in DagRuns : Transform(r)

SpecConcurrent == Init /\ [][NextConcurrent]_vars

\* ============================================================ properties
LoadStep == ti["load_raw_data"] = "running" /\ ti'["load_raw_data"] # "running"
TransformStep == ti["transform_data"] = "running" /\ ti'["transform_data"] # "running"

\* C1: every step of every stage, in failed, retried and repeated runs
\* alike, leaves each Raw Store row in place with the payload, source and
\* extracted_at it was first inserted with.
C1_RawStoreImmutable ==
    [][\A i \in DOMAIN raw : i \in DOMAIN raw' /\ raw'[i] = raw[i]]_vars

\* C1 witness: a Load that returned was handed a record whose id was stored
\* on an earlier day with another payload, and the stored row is the old one.
C1_Witness ==
    /\ lastLoad.outcome = "returned"
    /\ \E k \in 1..Len(lastLoad.data.features) :
          LET f == lastLoad.data.features[k]
          IN /\ f.id \in DOMAIN raw
             /\ raw[f.id].payload # f
             /\ raw[f.id].extracted_at < now
    /\ lastLoad.fresh = 0

\* C2: after every Loader invocation either (a) all non-duplicate records
\* of its batch are in the Raw Store and the Ledger row it wrote is SUCCESS,
\* or (b) it added no record to the Raw Store and the Ledger row it wrote,
\* if any, is FAILED; it never added rows and raised or wrote FAILED.
C2_LoaderAtomic ==
    lastLoad.outcome # "none" =>
        \/ /\ lastLoad.outcome = "returned"
           /\ lastLoad.added = lastLoad.fresh
           /\ lastLoad.data.hasFeatures =>
                 lastLoad.wrote = 1 /\ ledger[Len(ledger)].status = "SUCCESS"
        \/ /\ lastLoad.added = 0
           /\ lastLoad.wrote = 1 => ledger[Len(ledger)].status = "FAILED"
           /\ lastLoad.wrote = 0 \/ lastLoad.outcome = "raised"

\* C3: a Loader invocation that returns, on the batch the preceding
\* invocation committed, leaves the Raw Store as it was and appends one
\* Ledger row, SUCCESS with records_loaded = 0.
C3_IdempotentLoad ==
    [][(/\ LoadStep
        /\ lastLoad.committed
        /\ lastLoad.data = xcom
        /\ lastLoad'.outcome = "returned")
       => /\ raw' = raw
          /\ ledger' = Append(ledger, SuccessRow(0))]_vars

\* C3 witness: the second of two loads of one non-empty batch returned.
C3_Witness ==
    /\ lastLoad.repeat
    /\ lastLoad.outcome = "returned"
    /\ lastLoad.data.features # <<>>
    /\ ledger # <<>>
    /\ ledger[Len(ledger)] = SuccessRow(0)

\* An Analytics Store row without its transformed_at.
Fields(row) == [f \in DOMAIN row \ {"transformed_at"} |-> row[f]]
StripTransformedAt(table) == [i \in DOMAIN table |-> Fields(table[i])]

\* C4: a Transform run over the raw window that the preceding, successful
\* Transform run read leaves the Analytics Store with the same
\* earthquake_ids and the same fields, transformed_at apart, as that run
\* left it (no other stage writes the Analytics Store in between).
C4_IdempotentTransform ==
    /\ [][(/\ TransformStep
           /\ lastTransform.outcome = "returned"
           /\ WindowRows(raw, now) = lastTransform.window)
          => StripTransformedAt(analytics') = StripTransformedAt(analytics)]_vars
    /\ [][~TransformStep => analytics' = analytics]_vars

\* C4 witness: the second of two successful runs over one non-empty window
\* has run, on a later day than the first.
C4_Witness ==
    /\ lastTransform.repeat
    /\ lastTransform.outcome = "returned"
    /\ lastTransform.window # {}
    /\ \A r \in lastTransform.window :
          /\ r.payload.id \in DOMAIN analytics
          /\ analytics[r.payload.id].transformed_at > r.extracted_at

\* C5: a Transform run keeps every existing Analytics Store row and every
\* field of it other than transformed_at, and sets the transformed_at of
\* the rows whose raw record it processed to the time of the run.
C5_UpsertFrame ==
    [][TransformStep =>
          /\ \A i \in DOMAIN analytics :
                /\ i \in DOMAIN analytics'
                /\ Fields(analytics'[i]) = Fields(analytics[i])
          /\ lastTransform'.outcome = "returned" =>
                \A r \in WindowRows(raw, now) :
                    analytics'[r.payload.id].transformed_at = now]_vars

\* C5 witness: a successful run processed a raw record that already had an
\* Analytics Store row from an earlier day.
C5_Witness ==
    /\ lastTransform.outcome = "returned"
    /\ \E i \in lastTransform.updated :
          /\ analytics[i].transformed_at = lastTransform.at
          /\ raw[i].extracted_at < lastTransform.at
          /\ analytics[i].risk_level = "High"

\* C6: the rows a Transform run inserts or updates all belong to raw
\* records whose extracted_at is within 2 days of the run; a raw record
\* older than that, derived or not, has no row inserted or changed.
C6_Windowing ==
    [][TransformStep =>
          /\ \A i \in DOMAIN analytics' :
                (i \notin DOMAIN analytics \/ analytics'[i] # analytics[i])
                    => i \in DOMAIN raw /\ raw[i].extracted_at >= now - 2
          /\ \A i \in DOMAIN raw :
                raw[i].extracted_at < now - 2 =>
                    /\ i \in DOMAIN analytics' <=> i \in DOMAIN analytics
                    /\ i \in DOMAIN analytics => analytics'[i] = analytics[i]]_vars

\* C6 witness: a successful run left out a well-formed raw record that is
\* older than the window and was never derived.
C6_Witness ==
    /\ lastTransform.outcome = "returned"
    /\ lastTransform.at = now
    /\ \E i \in DOMAIN raw \ DOMAIN analytics :
          /\ ~CastFails(raw[i].payload)
          /\ raw[i].extracted_at < lastTransform.at - 2

\* The run's state, read off its task instances.
RunState ==
    IF RunFailed THEN "FAILED"
    ELSE IF \A t \in Tasks : ti[t] = "success" THEN "COMPLETE"
    ELSE IF ti["load_raw_data"] = "success" THEN "TRANSFORMING"
    ELSE IF ti["extract_data"] = "success" THEN "LOADING"
    ELSE IF ti["extract_data"] # "none" THEN "EXTRACTING"
    ELSE "INIT"

Started(t) == ti[t] # "running" /\ ti'[t] = "running"

RunTransitions ==
    {<<"INIT", "EXTRACTING">>, <<"EXTRACTING", "LOADING">>, <<"LOADING", "TRANSFORMING">>,
     <<"TRANSFORMING", "COMPLETE">>, <<"EXTRACTING", "FAILED">>, <<"LOADING", "FAILED">>,
     <<"TRANSFORMING", "FAILED">>}

\* C7: within a run the state moves only along INIT -> EXTRACTING ->
\* LOADING -> TRANSFORMING -> COMPLETE or from a stage to FAILED; Load
\* starts only after Extract succeeded and Transform only after Load
\* succeeded; a stage starts only while no stage is active and the run is
\* not FAILED; at most one stage is active.
C7_RunStateMachine ==
    /\ [][runs' = runs =>
             /\ RunState' = RunState \/ <<RunState, RunState'>> \in RunTransitions
             /\ Started("load_raw_data") => ti["extract_data"] = "success"
             /\ Started("transform_data") =>
                   ti["extract_data"] = "success" /\ ti["load_raw_data"] = "success"
             /\ \A t \in Tasks :
                   Started(t) => ~RunFailed /\ \A u \in Tasks : ti[u] # "running"]_vars
    /\ [](Cardinality({t \in Tasks : ti[t] = "running"}) <= 1)

\* C7 witness: Load failed for good and Transform never started.
C7_Witness ==
    /\ RunState = "FAILED"
    /\ ti["extract_data"] = "success"
    /\ ti["load_raw_data"] = "failed"
    /\ ti["transform_data"] = "upstream_failed"
    /\ tries["transform_data"] = 0

\* C8 as stated: after n Loader invocations the Ledger holds exactly n rows.
C8_OneRowPerInvocation == Len(ledger) = loadCalls

\* C8: a Loader invocation appends at most one Ledger row and leaves the
\* existing rows as they are: one SUCCESS row when it returns from a batch
\* that has a features key, one FAILED row when it raises and the write of
\* that row succeeds, and no row for an absent or feature-less batch or
\* when the FAILED write itself fails; no other step writes the Ledger; so
\* after n invocations the Ledger holds at most n rows.
C8_LedgerAppendOnly ==
    /\ [][IF LoadStep
          THEN /\ Len(ledger') \in {Len(ledger), Len(ledger) + 1}
               /\ SubSeq(ledger', 1, Len(ledger)) = ledger
               /\ (lastLoad'.outcome = "returned" /\ xcom.hasFeatures) =>
                     /\ Len(ledger') = Len(ledger) + 1
                     /\ ledger'[Len(ledger')].status = "SUCCESS"
               /\ (lastLoad'.outcome = "raised" /\ ~lastLoad'.handlerFailed) =>
                     /\ Len(ledger') = Len(ledger) + 1
                     /\ ledger'[Len(ledger')].status = "FAILED"
               /\ (~xcom.hasFeatures \/ lastLoad'.handlerFailed) => ledger' = ledger
          ELSE ledger' = ledger]_vars
    /\ [](Len(ledger) <= loadCalls)

\* C8 witness: the latest invocation raised and appended its FAILED row
\* behind the rows of earlier invocations, one of which wrote none.
C8_Witness ==
    /\ lastLoad.outcome = "raised"
    /\ lastLoad.wrote = 1
    /\ Len(ledger) >= 2
    /\ Len(ledger) < loadCalls
    /\ ledger[Len(ledger)].status = "FAILED"

\* C9: the SUCCESS row of a Loader invocation that returns holds the number
\* of distinct ids of the batch that were not in the Raw Store before, and
\* the Raw Store grew by as many rows; a FAILED row holds 0.
C9_RecordsLoaded ==
    [][LoadStep =>
          /\ (lastLoad'.outcome = "returned" /\ xcom.hasFeatures) =>
                LET n == Cardinality(BatchIds(xcom) \ DOMAIN raw)
                IN /\ ledger'[Len(ledger')].status = "SUCCESS"
                   /\ ledger'[Len(ledger')].records_loaded = n
                   /\ Cardinality(DOMAIN raw') = Cardinality(DOMAIN raw) + n
          /\ (Len(ledger') > Len(ledger) /\ ledger'[Len(ledger')].status = "FAILED") =>
                ledger'[Len(ledger')].records_loaded = 0]_vars

\* C9 witness: a load that returned, into a store that held another
\* event, had one new id twice in its batch and recorded 1.
C9_Witness ==
    /\ lastLoad.outcome = "returned"
    /\ Len(lastLoad.data.features) = 2
    /\ Cardinality(BatchIds(lastLoad.data)) = 1
    /\ lastLoad.added = 1
    /\ Cardinality(DOMAIN raw) = 2
    /\ ledger[Len(ledger)].records_loaded = 1

\* C10: a Loader invocation in which an error occurred raises, and raises
\* that error; it leaves a FAILED row with the error's message, unless the
\* write of that row failed, and then it leaves no row and still raises
\* the original error.
C10_FailureReporting ==
    /\ lastLoad.original # NoError =>
          /\ lastLoad.outcome = "raised"
          /\ lastLoad.raised = lastLoad.original
    /\ lastLoad.outcome = "raised" =>
          /\ lastLoad.original # NoError
          /\ lastLoad.handlerFailed => lastLoad.wrote = 0
          /\ ~lastLoad.handlerFailed =>
                /\ lastLoad.wrote = 1
                /\ ledger[Len(ledger)] =
                      [records_loaded |-> 0, status |-> "FAILED",
                       error_message |-> lastLoad.original]

\* C10 witness: the write of the FAILED row failed after a storage error.
C10_Witness ==
    /\ lastLoad.outcome = "raised"
    /\ lastLoad.handlerFailed
    /\ lastLoad.original = "storage"
    /\ lastLoad.raised = "storage"
    /\ lastLoad.wrote = 0

\* ----------------------------------------------- the classification rules
\* C15: every derived row carries exactly one magnitude category, the one
\* the ladder gives to its magnitude m (in tenths): Minor below 3.0, Light
\* from 3.0 and below 5.0, Moderate from 5.0 and below 6.0, Strong from 6.0
\* and below 7.0, Major from 7.0; a boundary belongs to the higher category.
C15_MagnitudeLadder ==
    \A i \in DOMAIN analytics :
        LET m == raw[i].payload.mag.v
            c == analytics[i].magnitude_category
        IN /\ analytics[i].magnitude = Num(m)
           /\ c \in {"Minor", "Light", "Moderate", "Strong", "Major"}
           /\ (c = "Minor") <=> (m < 30)
           /\ (c = "Light") <=> (30 <= m /\ m < 50)
           /\ (c = "Moderate") <=> (50 <= m /\ m < 60)
           /\ (c = "Strong") <=> (60 <= m /\ m < 70)
           /\ (c = "Major") <=> (70 <= m)

\* An event of magnitude exactly 5.0 was derived, as Moderate.
C15_Witness ==
    \E i \in DOMAIN analytics :
        /\ raw[i].payload.mag = Num(50)
        /\ analytics[i].magnitude_category = "Moderate"

\* C16: the risk level of a derived row is High exactly when its magnitude
\* is at least 6.0 and its depth below 70 km, Medium exactly when its
\* magnitude is at least 5.0 and it is not High, and Low exactly when its
\* magnitude is below 5.0.
C16_RiskLevel ==
    \A i \in DOMAIN analytics :
        LET m == raw[i].payload.mag.v
            d == raw[i].payload.coordinates[3].v
            r == analytics[i].risk_level
            high == m >= 60 /\ d < 70
        IN /\ r \in {"High", "Medium", "Low"}
           /\ (r = "High") <=> high
           /\ (r = "Medium") <=> (m >= 50 /\ ~high)
           /\ (r = "Low") <=> (m < 50)

\* An event of magnitude 6.0 at exactly 70 km was derived, as Medium.
C16_Witness ==
    \E i \in DOMAIN analytics :
        /\ raw[i].payload.mag = Num(60)
        /\ raw[i].payload.coordinates[3] = Num(70)
        /\ analytics[i].risk_level = "Medium"

\* C17: the depth category of a derived row is Shallow when its depth is
\* below 70 km, Intermediate from 70 km and below 300 km, Deep from 300 km;
\* exactly one applies.
C17_DepthLadder ==
    \A i \in DOMAIN analytics :
        LET d == raw[i].payload.coordinates[3].v
            c == analytics[i].depth_category
        IN /\ analytics[i].depth_km = Num(d)
           /\ c \in {"Shallow", "Intermediate", "Deep"}
           /\ (c = "Shallow") <=> (d < 70)
           /\ (c = "Intermediate") <=> (70 <= d /\ d < 300)
           /\ (c = "Deep") <=> (300 <= d)

\* An event at exactly 300 km was derived, as Deep.
C17_Witness ==
    \E i \in DOMAIN analytics :
        /\ raw[i].payload.coordinates[3] = Num(300)
        /\ analytics[i].depth_category = "Deep"

RECURSIVE TrimLeft(_)
TrimLeft(s) == IF s # <<>> /\ Head(s) = " " THEN TrimLeft(Tail(s)) ELSE s

RECURSIVE TrimRight(_)
TrimRight(s) ==
    IF s # <<>> /\ s[Len(s)] = " " THEN TrimRight(SubSeq(s, 1, Len(s) - 1)) ELSE s

\* The text after the final comma without its leading and trailing blanks;
\* the whole string when there is no comma.
TrimmedRegion(s) ==
    IF \E k \in 1..Len(s) : s[k] = ","
    THEN TrimRight(TrimLeft(SubSeq(s, LastComma(s) + 1, Len(s))))
    ELSE s

\* C18: the region of a derived row is the text following the final comma
\* of its place description with leading and trailing whitespace removed;
\* the whole description when it has no comma.
C18_RegionTrimmed ==
    \A i \in DOMAIN analytics :
        analytics[i].region = Str(TrimmedRegion(raw[i].payload.place.v))

\* pat occurs in s at some position.
Occurs(s, pat) ==
    \E k \in 1..Len(s) :
        /\ k + Len(pat) - 1 <= Len(s)
        /\ \A j \in 1..Len(pat) : s[k + j - 1] = pat[j]

\* C19: the country of a derived row is that of the first rule, in the order
\* Mexico, California, Japan, Chile, whose name occurs in the place
\* description, wherever in the text the names stand; it is Other exactly
\* when no rule's name occurs.
C19_CountryFirstMatch ==
    \A i \in DOMAIN analytics :
        LET s == raw[i].payload.place.v
            c == analytics[i].country
        IN /\ Occurs(s, chMexico) => c = "Mexico"
           /\ (~Occurs(s, chMexico) /\ Occurs(s, chCalifornia)) => c = "United States"
           /\ (~Occurs(s, chMexico) /\ ~Occurs(s, chCalifornia) /\ Occurs(s, chJapan))
                 => c = "Japan"
           /\ (~Occurs(s, chMexico) /\ ~Occurs(s, chCalifornia) /\ ~Occurs(s, chJapan)
                 /\ Occurs(s, chChile)) => c = "Chile"
           /\ (c = "Other") <=> (\A n \in {chMexico, chCalifornia, chJapan, chChile} :
                                     ~Occurs(s, n))

\* A description naming California before Mexico was derived, as Mexico.
C19_Witness ==
    \E i \in DOMAIN analytics :
        /\ raw[i].payload.place = Str(chCalifornia \o <<",">> \o chMexico)
        /\ analytics[i].country = "Mexico"

\* ------------------------------------------------------ the transform frame
\* C20: an execution of the transform, whether it succeeds or raises,
\* leaves raw_earthquakes and load_history as they were (a failed one adds
\* no load_history row); analytics_earthquakes is the only table it can
\* change.
C20_TransformFrame ==
    [][TransformStep => (raw' = raw /\ ledger' = ledger)]_vars

\* A transform raised after a load that recorded its SUCCESS row, and
\* load_history still holds that row only.
C20_Witness ==
    /\ lastTransform.outcome = "raised"
    /\ ti["transform_data"] \in {"up_for_retry", "failed"}
    /\ raw # EmptyTable
    /\ Len(ledger) = 1
    /\ ledger[1].status = "SUCCESS"

\* ------------------------------------------------------- malformed records
Missing(v) == v.kind = "null"
Mistyped(v) == v.kind = "bad"

\* A payload in which an expected field is missing or mistyped.
Malformed(p) ==
    \E v \in {p.time, p.mag, p.place, p.coordinates[1], p.coordinates[2], p.coordinates[3]} :
        Missing(v) \/ Mistyped(v)

\* C11: when a raw row of the trailing window has a payload with a missing
\* or mistyped expected field, the transform fails and leaves
\* analytics_earthquakes exactly as it was; no row of the window, good or
\* bad, is inserted or updated.
C11_MalformedAllOrNothing ==
    [][(TransformStep /\ \E r \in WindowRows(raw, now) : Malformed(r.payload))
          => (ti'["transform_data"] # "success" /\ analytics' = analytics)]_vars

IsSuccess(row) == row.status = "SUCCESS"

\* The ids run k was the first to extract.
FirstSeen(k) == history.batches[k] \ UNION {history.batches[j] : j \in 1..(k - 1)}

Overlapping ==
    \E j \in 1..Len(history.batches), k \in 1..Len(history.batches) :
        j < k /\ history.batches[j] \cap history.batches[k] # {}

\* C13: after n complete runs whose batches overlap in ids, raw_earthquakes
\* holds exactly one row per id of any batch, load_history holds n SUCCESS
\* rows whose records_loaded are, in order, the numbers of ids each run was
\* the first to extract, and analytics_earthquakes holds exactly one row
\* per id, classified by magnitude, depth and risk as the rules say.
C13_EndToEndAccounting ==
    (/\ RunState = "COMPLETE"
     /\ ~history.incomplete
     /\ Len(history.batches) = runs
     /\ Overlapping)
    => LET seen == UNION {history.batches[k] : k \in 1..runs}
           successes == SelectSeq(ledger, IsSuccess)
       IN /\ DOMAIN raw = seen
          /\ Len(successes) = runs
          /\ \A k \in 1..runs : successes[k].records_loaded = Cardinality(FirstSeen(k))
          /\ DOMAIN analytics = seen
          /\ \A i \in seen :
                /\ analytics[i].earthquake_id = i
                /\ analytics[i].magnitude_category = MagnitudeCategory(raw[i].payload.mag)
                /\ analytics[i].depth_category = DepthCategory(raw[i].payload.coordinates[3])
                /\ analytics[i].risk_level =
                      RiskLevel(raw[i].payload.mag, raw[i].payload.coordinates[3])

\* ------------------------------------------------------- overlapping runs
RECURSIVE RecordsLoaded(_)
RecordsLoaded(rows) ==
    IF rows = <<>> THEN 0
    ELSE (IF IsSuccess(Head(rows)) THEN Head(rows).records_loaded ELSE 0)
            + RecordsLoaded(Tail(rows))

BothFinished == \A r \in DagRuns : dagrun[r].pc = "success"

C22_AnalyticsWithinRaw ==
    /\ \A i \in DOMAIN analytics :
          /\ analytics[i].earthquake_id = i
          /\ Cardinality({j \in DOMAIN raw : raw[j].payload.id = i}) = 1
    /\ Cardinality(DOMAIN analytics) <= Cardinality(DOMAIN raw)

\* A transform returned, and raw_earthquakes has since taken a second row
\* that analytics_earthquakes does not have.
C22_Witness ==
    /\ lastTransform.outcome = "returned"
    /\ Cardinality(DOMAIN analytics) = 1
    /\ Cardinality(DOMAIN raw) = 2
====
